---- MODULE Spec2Model ----
(***************************************************************************)
(* CarbonLens browser extension: the activity capture and delivery         *)
(* pipeline.  The Dispatch Client of the content script (sendWithRetry),   *)
(* the Background Coordinator of the service worker (background.js) and    *)
(* the Durable State Store (chrome.storage.local) they share.              *)
(*                                                                         *)
(* Every context is a single-threaded event loop: an action of this model  *)
(* is one task of one context, from the event that starts it to its next   *)
(* await, callback registration or return.  chrome.storage.local is        *)
(* served first come first served: a set takes effect, and a get takes its *)
(* snapshot, when it is issued; the callback runs as a later task.         *)
(* Storage faults (chrome.runtime.lastError on get/set) are not modelled.  *)
(***************************************************************************)
EXTENDS Integers, Sequences, FiniteSets, TLC

(* ------------------------------ bounds -------------------------------- *)
\* detections (calls of dispatchActivity) in one run
MaxEvents == 3
\* detections sent over the unreliable channel in one run (PipelineSpec)
MaxRetried == 2
\* entries of the persisted queue a cold start may find (DrainSpec)
MaxQueue == 3
\* entries of the persisted queue, and detections after the start, of a cold
\* start with tabs open (ColdStartSpec)
MaxLeft == 1
MaxLive == 1
\* clock ticks in one run, and the length of a tick in ms: calls at one
\* reading of the clock are within the dedupe window of each other, calls a
\* tick apart are not
MaxTicks == 1
TickMs == 2000
\* ms between the detections of the events a cold start finds queued
ColdGapMs == 3000
\* times the host runtime tears the service worker down
MaxTeardowns == 1
\* popup commands in one run
MaxCommands == 2
\* minutes that may pass
MaxMinutes == 1
\* base retry delays that may pass
MaxWaits == 3
\* the clock of the dedupe scenarios: steps of half a second
MaxHalfSeconds == 6
HalfSecondMs == 500

(* ------------------------- program constants -------------------------- *)
maxRetries == 3
retryDelayBase == 300
DedupeWindowMs == 2000
HealthMemoMs == 60000
HealthStaleMs == 300000
KeyDedupeMs == 1000
DEFAULT_BACKEND_BASE_URL == "http://127.0.0.1:5000"

Null == "null"
\* a key that chrome.storage.local does not hold
Absent == "absent"
\* totalActivitiesTracked when the store does not hold the key
NoCount == 0 - 1
\* lastHealthCheck before any probe: null, which the code tests by truthiness
NoCheck == 0
\* a queue entry that is no object (item.payload throws a TypeError)
NullItem == 0
\* a queue entry that is an object without a payload
NoPayloadItem == 0 - 1
\* an ISO instant (new Date().toISOString()); the model keeps that one is
\* stored, not which
Instant == "instant"

Events == 1..MaxEvents

(* ------------------------------ payloads ------------------------------ *)
\* ActivityEvent payloads, by the fields the Coordinator's fingerprint reads
\* and by activityType
PayloadA ==
  [activityType |-> "email", provider |-> "gmail", subject |-> "x", sender |-> "s",
   recipients |-> <<"r">>]
PayloadB ==
  [activityType |-> "email", provider |-> "gmail", subject |-> Null, sender |-> "s",
   recipients |-> <<"r", "q">>]
Payloads == {PayloadA, PayloadB}
\* the payload of an event that has not been detected yet
NoPayload ==
  [activityType |-> Null, provider |-> Null, subject |-> Null, sender |-> Null,
   recipients |-> <<>>]

RECURSIVE Join(_)
\* Array.prototype.join(',')
Join(list) ==
  IF list = <<>> THEN ""
  ELSE IF Len(list) = 1 THEN list[1]
  ELSE list[1] \o "," \o Join(Tail(list))

\* `${provider}::${subject || ''}::${sender || ''}::${recipientsKey}`
Fingerprint(p) ==
  p.provider \o "::" \o (IF p.subject = Null THEN "" ELSE p.subject) \o "::"
    \o (IF p.sender = Null THEN "" ELSE p.sender) \o "::" \o Join(p.recipients)

(* ------------------------------- state -------------------------------- *)
VARIABLES
  now,                      \* Date.now(), ms
  store,                    \* chrome.storage.local
  alive,                    \* the service worker is running
  State,                    \* background.js STATE (STATE is a reserved word of TLA+)
  _lastActivityFingerprint, \* background.js dedupe memory
  _lastActivityAt,
  stateReady,               \* the stateReady promise has resolved
  init,                     \* initializeState: position and the data read
  drain,                    \* processPendingActivities: position and its list
  hnd,                      \* handleActivityEvent of a live message, per event
  popup,                    \* one popup command and its handlePopupMessage
  disp,                     \* dispatchActivity/sendWithRetry, per event
  evPayload,                \* the payload of each detected event
  evVia,                    \* the handler that detected each event in this run
  evAt,                     \* Date.now() when each event was detected
  _lastDispatchAt,          \* content script: time of the last keyboard dispatch
  calls,                    \* per event: what onActivity has done for it
  shown,                    \* the state of the worker's last STATE_UPDATED broadcast
  posted,                   \* per event: the answer to its POST, where it is recorded
  evDom,                    \* per event: the page its trigger ran on, where it is recorded
  drainFrom,                \* the persisted queue as the last drain read it
  teardowns,                \* teardowns so far
  commands                  \* popup commands so far

vars == <<now, store, alive, State, _lastActivityFingerprint, _lastActivityAt,
          stateReady, init, drain, hnd, popup, disp, evPayload, evVia,
          evAt, _lastDispatchAt, calls, shown, posted, evDom,
          drainFrom, teardowns, commands>>

memVars == <<State, _lastActivityFingerprint, _lastActivityAt, stateReady>>

\* background.js STATE as compiled in
DefaultState ==
  [mode |-> "awareness", backendBaseUrl |-> DEFAULT_BACKEND_BASE_URL,
   isBackendReachable |-> TRUE, lastHealthCheck |-> NoCheck,
   lastSyncStatus |-> "idle", lastSyncAt |-> Null, totalActivitiesTracked |-> 0]

\* a store no one has written yet
EmptyStore ==
  [mode |-> Absent, backendBaseUrl |-> Absent, totalActivitiesTracked |-> NoCount,
   lastSyncStatus |-> Absent, lastSyncAt |-> Absent, pendingActivities |-> <<>>]

NoInit == [pc |-> "none", data |-> Null, probeAt |-> 0]
NoDrain == [pc |-> "none", list |-> <<>>, probeAt |-> 0]
NoHandler == [pc |-> "none", probeAt |-> 0]
NoDispatch == [pc |-> "idle", attempt |-> 0, delay |-> 0, at |-> 0, snap |-> <<>>]
NoCalls ==
  [handled |-> 0, absorbed |-> 0, inc |-> 0, outcome |-> "none", notice |-> "none"]
\* prev is the type of the command before this one, mark is what
\* handleActivityEvent had done when clearStats last ran, fetched is the
\* response its health probe got, sentMode is the mode of the UPDATE_MODE
\* message the command had sent to the mail tabs
NoPopup ==
  [pc |-> "none", type |-> Null, arg |-> Null, probeAt |-> 0, reply |-> Null,
   replies |-> 0, prev |-> Null, mark |-> [e \in Events |-> NoCalls],
   fetched |-> Null, sentMode |-> Null]

(* ------------------------- Durable State Store ------------------------ *)
\* persistState(fields): chrome.storage.local.set of the named STATE fields
Persist(st, S, fields) ==
  [k \in DOMAIN st |-> IF k \in fields THEN S[k] ELSE st[k]]

\* a stored or sent value that is truthy and no string (a number, an object)
NotAString == "<42>"

\* sanitizeBaseUrl throws a TypeError: value.trim is not a function
sanitizeThrows(value) == value = NotAString

\* sanitizeBaseUrl on the values the model draws: null for an empty, blank or
\* unparsable value, else the URL without hash and trailing slash, https://
\* put before a bare host
sanitizeBaseUrlLax(value) == IF value \in {Null, Absent} THEN Null ELSE value
sanitizeBaseUrl(value) ==
  CASE value \in {Null, Absent, "", "  "} -> Null
    [] value = "api.example.com" -> "https://api.example.com"
    [] value = "https://api.example.com/" -> "https://api.example.com"
    [] value = "https://api.example.com" -> "https://api.example.com"
    [] value = DEFAULT_BACKEND_BASE_URL -> DEFAULT_BACKEND_BASE_URL
    [] OTHER -> Null

\* the first assignment of that callback
RehydratedMode(S, data) ==
  [S EXCEPT !.mode = IF data.mode = "silent" THEN "silent" ELSE "awareness"]

\* the callback of initializeState's chrome.storage.local.get
RehydratedDefaults(S, data) == S
Rehydrated(S, data) ==
  [S EXCEPT
     !.mode = IF data.mode = "silent" THEN "silent" ELSE "awareness",
     !.backendBaseUrl =
        IF sanitizeBaseUrl(data.backendBaseUrl) = Null
          THEN DEFAULT_BACKEND_BASE_URL ELSE sanitizeBaseUrl(data.backendBaseUrl),
     !.totalActivitiesTracked =
        IF data.totalActivitiesTracked = NoCount THEN 0 ELSE data.totalActivitiesTracked,
     !.lastSyncStatus =
        IF data.lastSyncStatus = Absent THEN "idle" ELSE data.lastSyncStatus,
     !.lastSyncAt = IF data.lastSyncAt = Absent THEN Null ELSE data.lastSyncAt]

(* --------------------------- handleActivityEvent ----------------------- *)
\* the dedupe test of handleActivityEvent (background.js:190)
IsDuplicate(fp) ==
  /\ _lastActivityFingerprint # Null
  /\ fp = _lastActivityFingerprint
  /\ now - _lastActivityAt < DedupeWindowMs

\* STATE.totalActivitiesTracked += 1
IncrementTrackedTwice(n) == n + 2
IncrementTracked(n) == n + 1

\* the counter and status after an accepted activity
AfterAccept(S) ==
  [S EXCEPT !.totalActivitiesTracked = IncrementTracked(@),
            !.lastSyncStatus = "syncing"]

\* sendActivityToBackend's test for a forced health probe before the POST
NeedsProbe(S) ==
  \/ ~S.isBackendReachable
  \/ (S.lastHealthCheck # NoCheck /\ now - S.lastHealthCheck > HealthStaleMs)

\* performHealthCheck(force) returns the cached isBackendReachable without a
\* probe: not forced, a probe has run, and it started less than 60 s ago
HealthMemoizedAtAnyAge(S, force) == ~force /\ S.lastHealthCheck # NoCheck
HealthMemoized(S, force) ==
  /\ ~force
  /\ S.lastHealthCheck # NoCheck
  /\ now - S.lastHealthCheck < HealthMemoMs

\* performHealthCheck's result stored
AfterProbeOptimistic(S, ok, at) ==
  [S EXCEPT !.isBackendReachable = TRUE, !.lastHealthCheck = at]
AfterProbe(S, ok, at) ==
  [S EXCEPT !.isBackendReachable = ok, !.lastHealthCheck = at]

\* answers to the POST
\* what the body of a response is to JSON.parse and to data?.success
Bodies == {"json", "successfalse", "garbage"}
\* fetch rejects: there is no response
NetworkError == [net |-> "error", ok |-> FALSE, body |-> "none"]
\* a 2xx response whose body parses and does not carry success: false
OkResponse == [net |-> "response", ok |-> TRUE, body |-> "json"]
PostOutcomes ==
  {NetworkError} \cup [net : {"response"}, ok : BOOLEAN, body : Bodies]
PostStatusByStatusOnly(outcome) ==
  IF outcome.net = "response" /\ outcome.ok THEN "success" ELSE "error"
\* sendActivityToBackend from its fetch on: it throws when fetch rejects,
\* when the body does not parse, when the status is not ok and when the
\* body carries success: false; the handler's try sets 'success', its catch
\* 'error'
PostStatus(outcome) ==
  IF outcome.net = "error" THEN "error"
  ELSE IF outcome.body = "garbage" THEN "error"
  ELSE IF ~outcome.ok \/ outcome.body = "successfalse" THEN "error"
  ELSE "success"
\* no page recorded
NoDom == [platform |-> "none", root |-> "none"]
\* no answer recorded
NoResponse == [net |-> "none", ok |-> FALSE, body |-> "none"]

\* the end of a delivery: lastSyncStatus and lastSyncAt, the counter untouched
AfterDeliveryStaysSyncing(S, status) == [S EXCEPT !.lastSyncAt = Instant]
AfterDeliveryRollsBack(S, status) ==
  [S EXCEPT !.lastSyncStatus = status, !.lastSyncAt = Instant,
            !.totalActivitiesTracked = IF status = "error" THEN @ - 1 ELSE @]
AfterDelivery(S, status) ==
  [S EXCEPT !.lastSyncStatus = status, !.lastSyncAt = Instant]

\* the synchronous part of handleActivityEvent for event e: the dedupe test,
\* then the counter, the status and the choice between probe and POST
SyncSlidingWindow(e) ==
  LET fp == Fingerprint(evPayload[e]) IN
  IF IsDuplicate(fp)
    THEN [absorbed |-> TRUE, S |-> State, fpr |-> fp, at |-> now, next |-> "done"]
    ELSE [absorbed |-> FALSE, S |-> AfterAccept(State), fpr |-> fp, at |-> now,
          next |-> IF NeedsProbe(State) THEN "probe" ELSE "post"]
Sync(e) ==
  LET fp == Fingerprint(evPayload[e]) IN
  IF IsDuplicate(fp)
    THEN [absorbed |-> TRUE, S |-> State, fpr |-> _lastActivityFingerprint,
          at |-> _lastActivityAt, next |-> "done"]
    ELSE [absorbed |-> FALSE, S |-> AfterAccept(State), fpr |-> fp, at |-> now,
          next |-> IF NeedsProbe(State) THEN "probe" ELSE "post"]

\* what is recorded of a call of handleActivityEvent for e that starts
CallStarted(c, r) ==
  [c EXCEPT !.handled = @ + 1,
            !.absorbed = IF r.absorbed THEN @ + 1 ELSE @,
            !.inc = @ + (r.S.totalActivitiesTracked - State.totalActivitiesTracked),
            !.outcome = IF r.absorbed THEN "absorbed" ELSE "running",
            !.notice = "none"]

\* what is recorded of a call that ends with STATE becoming S; the catch
\* block creates the 'CarbonLens Sync Error' notification
CallEnded(c, S, outcome) ==
  [c EXCEPT !.inc = @ + (S.totalActivitiesTracked - State.totalActivitiesTracked),
            !.outcome = outcome,
            !.notice = IF outcome = "success" THEN "none" ELSE "Sync Error"]

\* the keys initializeState reads
StateKeys ==
  {"mode", "backendBaseUrl", "totalActivitiesTracked", "lastSyncStatus", "lastSyncAt"}
StatusFields == {"lastSyncStatus", "lastSyncAt"}
AcceptFields == {"totalActivitiesTracked", "lastSyncStatus", "lastSyncAt"}

(* ------------------------ service worker lifecycle -------------------- *)
\* the memory of a service worker that has just been started: the top level
\* of background.js has run and registered the listeners, nothing else
FreshMemory ==
  /\ State' = DefaultState
  /\ _lastActivityFingerprint' = Null
  /\ _lastActivityAt' = 0
  /\ stateReady' = FALSE
  /\ hnd' = [e \in Events |-> NoHandler]
  /\ shown' = DefaultState

\* a message for the Coordinator is in the channel
MessageInChannel ==
  \/ \E e \in Events : disp[e].pc = "sent"
  \/ popup.pc = "sent"

\* chrome.runtime.onInstalled / onStartup: the worker starts and the listener
\* calls initializeState, which issues its chrome.storage.local.get
LifecycleStart ==
  /\ ~alive
  /\ alive' = TRUE
  /\ FreshMemory
  /\ init' = [pc |-> "read", data |-> [k \in StateKeys |-> store[k]], probeAt |-> 0]
  /\ drain' = NoDrain
  /\ UNCHANGED <<now, store, popup, disp, evPayload, posted, evDom, evVia, evAt, _lastDispatchAt, calls, teardowns, commands, drainFrom>>

\* the host runtime starts the stopped worker to deliver a message: only the
\* top level of background.js runs, no listener calls initializeState
WakeByMessage ==
  /\ ~alive
  /\ teardowns > 0
  /\ MessageInChannel
  /\ alive' = TRUE
  /\ FreshMemory
  /\ init' = NoInit
  /\ drain' = NoDrain
  /\ UNCHANGED <<now, store, popup, disp, evPayload, posted, evDom, evVia, evAt, _lastDispatchAt, calls, teardowns, commands, drainFrom>>

\* the host runtime tears the worker down: its memory and its unfinished
\* handlers are gone, the ports of unanswered messages close
Teardown ==
  /\ alive
  /\ teardowns < MaxTeardowns
  /\ teardowns' = teardowns + 1
  /\ alive' = FALSE
  /\ FreshMemory
  /\ init' = NoInit
  /\ drain' = NoDrain
  /\ popup' = IF popup.pc \in {"waitReady", "health", "scripts"}
                THEN [popup EXCEPT !.pc = "closed"] ELSE popup
  /\ UNCHANGED <<now, store, disp, evPayload, posted, evDom, evVia, evAt, _lastDispatchAt, calls, commands, drainFrom>>

\* time passes
Tick ==
  /\ now < (MaxTicks + 1) * TickMs
  /\ now' = now + TickMs
  /\ UNCHANGED <<store, alive, memVars, init, drain, hnd, popup, disp,
                 evPayload, posted, evDom, evVia, evAt, _lastDispatchAt, calls, shown, teardowns, commands, drainFrom>>

\* half a second passes
HalfSecond ==
  /\ now < TickMs + MaxHalfSeconds * HalfSecondMs
  /\ now' = now + HalfSecondMs
  /\ UNCHANGED <<store, alive, memVars, init, drain, hnd, popup, disp,
                 evPayload, posted, evDom, evVia, evAt, _lastDispatchAt, calls, shown, teardowns, commands, drainFrom>>

\* a minute passes
LongTick ==
  /\ now < MaxMinutes * HealthMemoMs
  /\ now' = now + HealthMemoMs
  /\ UNCHANGED <<store, alive, memVars, init, drain, hnd, popup, disp,
                 evPayload, posted, evDom, evVia, evAt, _lastDispatchAt, calls, shown, teardowns, commands, drainFrom>>

\* the time of one base retry delay passes
Wait ==
  /\ now < TickMs + MaxWaits * retryDelayBase
  /\ now' = now + retryDelayBase
  /\ UNCHANGED <<store, alive, memVars, init, drain, hnd, popup, disp,
                 evPayload, posted, evDom, evVia, evAt, _lastDispatchAt, calls, shown, teardowns, commands, drainFrom>>

(* -------------------------- processPendingActivities ------------------- *)
\* list.shift(): the list without its head
Popped(list) == SubSeq(list, 1, Len(list) - 1)
Shifted(list) == Tail(list)

\* the head of the drain loop on list L: handleActivityEvent(list[0]) up to
\* its first await; an item handled without an await is shifted and the list
\* written back at once
LoopHead(L) ==
  IF L = <<>> THEN
    /\ drain' = [NoDrain EXCEPT !.pc = "done"]
    /\ UNCHANGED <<State, _lastActivityFingerprint, _lastActivityAt, store, calls, shown>>
  ELSE IF Head(L) = NullItem THEN
    \* item.payload throws: caught, break
    /\ drain' = [NoDrain EXCEPT !.pc = "done"]
    /\ UNCHANGED <<State, _lastActivityFingerprint, _lastActivityAt, store, calls, shown>>
  ELSE IF Head(L) = NoPayloadItem THEN
    \* handleActivityEvent returns on the empty payload
    /\ drain' = [pc |-> "pause", list |-> Shifted(L), probeAt |-> 0]
    /\ store' = [store EXCEPT !.pendingActivities = Shifted(L)]
    /\ UNCHANGED <<State, _lastActivityFingerprint, _lastActivityAt, calls, shown>>
  ELSE
    LET e == Head(L)
        r == Sync(e) IN
    /\ State' = r.S
    /\ _lastActivityFingerprint' = r.fpr
    /\ _lastActivityAt' = r.at
    /\ calls' = [calls EXCEPT ![e] = CallStarted(@, r)]
    /\ IF r.absorbed
         THEN /\ drain' = [pc |-> "pause", list |-> Shifted(L), probeAt |-> 0]
              /\ store' = [store EXCEPT !.pendingActivities = Shifted(L)]
              /\ UNCHANGED shown
         ELSE /\ drain' = [pc |-> r.next, list |-> L, probeAt |-> now]
              /\ store' = Persist(store, r.S, AcceptFields)
              /\ shown' = r.S

\* getPendingActivities' callback: the list read, then the loop
DrainRead ==
  /\ alive
  /\ drain.pc = "read"
  /\ LoopHead(drain.list)
  /\ UNCHANGED <<now, alive, stateReady, init, hnd, popup, disp, evPayload, posted, evDom, evVia, evAt, _lastDispatchAt,
                 teardowns, commands, drainFrom>>

\* the item's handleActivityEvent has returned: list.shift() and
\* setPendingActivities(list)
ShiftAndWrite(S) ==
  /\ drain' = [pc |-> "pause", list |-> Shifted(drain.list), probeAt |-> 0]
  /\ store' = [Persist(store, S, StatusFields)
                 EXCEPT !.pendingActivities = Shifted(drain.list)]
  /\ shown' = S

\* the forced health probe made for the head item answers
DrainProbeDone(ok) ==
  /\ alive
  /\ drain.pc = "probe"
  /\ LET P == AfterProbe(State, ok, drain.probeAt)
         S == IF ok THEN P ELSE AfterDelivery(P, "error") IN
     /\ State' = S
     /\ IF ok
          THEN /\ drain' = [drain EXCEPT !.pc = "post"]
               /\ UNCHANGED <<store, calls, shown>>
          ELSE /\ ShiftAndWrite(S)
               /\ calls' = [calls EXCEPT
                    ![Head(drain.list)] = CallEnded(@, S, "unreachable")]
  /\ UNCHANGED <<now, alive, _lastActivityFingerprint, _lastActivityAt,
                 stateReady, init, hnd, popup, disp, evPayload, posted, evDom, evVia, evAt, _lastDispatchAt, teardowns, commands, drainFrom>>

\* the POST made for the head item answers or fails
DrainPostDone(outcome) ==
  /\ alive
  /\ drain.pc = "post"
  /\ LET S == AfterDelivery(State, PostStatus(outcome)) IN
     /\ State' = S
     /\ ShiftAndWrite(S)
     /\ calls' = [calls EXCEPT
          ![Head(drain.list)] = CallEnded(@, S, PostStatus(outcome))]
  /\ UNCHANGED <<now, alive, _lastActivityFingerprint, _lastActivityAt,
                 stateReady, init, hnd, popup, disp, evPayload, posted, evDom, evVia, evAt, _lastDispatchAt, teardowns, commands, drainFrom>>

\* the set has completed and the 200 ms pause is over: the loop goes on
DrainPauseOver ==
  /\ alive
  /\ drain.pc = "pause"
  /\ LoopHead(drain.list)
  /\ UNCHANGED <<now, alive, stateReady, init, hnd, popup, disp, evPayload, posted, evDom, evVia, evAt, _lastDispatchAt,
                 teardowns, commands, drainFrom>>

(* ----------------------------- initializeState ------------------------- *)
\* the end of initializeState: stateReady resolves, processPendingActivities
\* starts and issues its chrome.storage.local.get
InitFinish ==
  /\ stateReady' = TRUE
  /\ init' = [NoInit EXCEPT !.pc = "done"]
  /\ drain' = [pc |-> "read", list |-> store.pendingActivities, probeAt |-> 0]
  /\ drainFrom' = store.pendingActivities

\* the callback of initializeState's get: STATE is rehydrated, then
\* performHealthCheck() probes unless a probe ran less than 60 s ago
InitRead ==
  /\ alive
  /\ init.pc = "read"
  /\ IF sanitizeThrows(init.data.backendBaseUrl)
       THEN \* the callback throws after it has assigned STATE.mode
            /\ State' = RehydratedMode(State, init.data)
            /\ init' = [NoInit EXCEPT !.pc = "failed"]
            /\ UNCHANGED <<stateReady, drain, drainFrom>>
       ELSE LET S == Rehydrated(State, init.data) IN
            /\ State' = S
            /\ IF HealthMemoized(S, FALSE)
                 THEN InitFinish
                 ELSE /\ init' = [pc |-> "probe", data |-> Null, probeAt |-> now]
                      /\ UNCHANGED <<stateReady, drain, drainFrom>>
  /\ UNCHANGED <<now, store, alive, _lastActivityFingerprint, _lastActivityAt,
                 hnd, popup, disp, evPayload, posted, evDom, evVia, evAt, _lastDispatchAt, calls, shown, teardowns, commands>>

\* the initial health probe answers: ok is response.ok, FALSE also when
\* fetch rejects (performHealthCheck catches it)
InitProbeDoneAbortsWhenDown(ok) ==
  /\ alive
  /\ init.pc = "probe"
  /\ State' = AfterProbe(State, ok, init.probeAt)
  /\ IF ok THEN InitFinish
     ELSE init' = [NoInit EXCEPT !.pc = "failed"] /\ UNCHANGED <<stateReady, drain, drainFrom>>
  /\ UNCHANGED <<now, store, alive, _lastActivityFingerprint, _lastActivityAt,
                 hnd, popup, disp, evPayload, posted, evDom, evVia, evAt, _lastDispatchAt, calls, shown, teardowns, commands>>
InitProbeDone(ok) ==
  /\ alive
  /\ init.pc = "probe"
  /\ State' = AfterProbe(State, ok, init.probeAt)
  /\ InitFinish
  /\ UNCHANGED <<now, store, alive, _lastActivityFingerprint, _lastActivityAt,
                 hnd, popup, disp, evPayload, posted, evDom, evVia, evAt, _lastDispatchAt, calls, shown, teardowns, commands>>

(* ------------------ onMessage: ACTIVITY_DETECTED, live ----------------- *)
\* the listener receives event e's message and runs handleActivityEvent up
\* to its first await; a call that returns at once is answered at once
Deliver(e) ==
  /\ alive
  /\ disp[e].pc = "sent"
  /\ LET r == Sync(e) IN
     /\ State' = r.S
     /\ _lastActivityFingerprint' = r.fpr
     /\ _lastActivityAt' = r.at
     /\ calls' = [calls EXCEPT ![e] = CallStarted(@, r)]
     /\ IF r.absorbed
          THEN /\ disp' = [disp EXCEPT ![e].pc = "acked"]
               /\ UNCHANGED <<hnd, store, shown>>
          ELSE /\ disp' = [disp EXCEPT ![e].pc = "await"]
               /\ hnd' = [hnd EXCEPT ![e] = [pc |-> r.next, probeAt |-> now]]
               /\ store' = Persist(store, r.S, AcceptFields)
               /\ shown' = r.S
  /\ UNCHANGED <<now, alive, stateReady, init, drain, popup, evPayload, posted, evDom, evVia, evAt, _lastDispatchAt,
                 teardowns, commands, drainFrom>>

\* a handler whose catch block would rethrow: the listener's own catch
\* answers {acknowledged: false, error}
HandlerEndsRethrows(e, S, outcome) ==
  /\ State' = S
  /\ store' = Persist(store, S, StatusFields)
  /\ shown' = S
  /\ hnd' = [hnd EXCEPT ![e] = NoHandler]
  /\ disp' = [disp EXCEPT ![e].pc = IF outcome = "success" THEN "acked" ELSE "nacked"]
  /\ calls' = [calls EXCEPT ![e] = CallEnded(@, S, outcome)]

\* the handler of e ends: sendResponse({acknowledged: true})
HandlerEnds(e, S, outcome) ==
  /\ State' = S
  /\ store' = Persist(store, S, StatusFields)
  /\ shown' = S
  /\ hnd' = [hnd EXCEPT ![e] = NoHandler]
  /\ disp' = [disp EXCEPT ![e].pc = "acked"]
  /\ calls' = [calls EXCEPT ![e] = CallEnded(@, S, outcome)]

\* the forced health probe made for e answers
HandlerProbeDone(e, ok) ==
  /\ alive
  /\ hnd[e].pc = "probe"
  /\ LET P == AfterProbe(State, ok, hnd[e].probeAt) IN
     IF ok
       THEN /\ State' = P
            /\ hnd' = [hnd EXCEPT ![e].pc = "post"]
            /\ UNCHANGED <<store, disp, calls, shown>>
       ELSE HandlerEnds(e, AfterDelivery(P, "error"), "unreachable")
  /\ UNCHANGED <<now, alive, _lastActivityFingerprint, _lastActivityAt,
                 stateReady, init, drain, popup, evPayload, posted, evDom, evVia, evAt, _lastDispatchAt, teardowns, commands, drainFrom>>

\* the POST made for e answers or fails, and the handler's try or catch runs
PostEnds(e, outcome) ==
  /\ alive
  /\ hnd[e].pc = "post"
  /\ HandlerEnds(e, AfterDelivery(State, PostStatus(outcome)), PostStatus(outcome))
  /\ UNCHANGED <<now, alive, _lastActivityFingerprint, _lastActivityAt,
                 stateReady, init, drain, popup, evPayload, evDom, evVia, evAt, _lastDispatchAt, teardowns, commands, drainFrom>>

HandlerPostDone(e, outcome) ==
  /\ PostEnds(e, outcome)
  /\ UNCHANGED posted

\* the same step with the answer kept for inspection
PostAnswers(e, outcome) ==
  /\ PostEnds(e, outcome)
  /\ posted' = [posted EXCEPT ![e] = outcome]

(* ------------------- Dispatch Client: sendWithRetry -------------------- *)
\* retryDelayBase * Math.pow(2, attempt - 1)
RetryDelayFlat(attempt) == retryDelayBase
RetryDelay(attempt) == retryDelayBase * 2 ^ (attempt - 1)

\* the catch of sendWithRetry: chrome.runtime.sendMessage threw
AfterThrow(attempt) ==
  IF attempt < maxRetries
    THEN [pc |-> "timer", attempt |-> attempt + 1, delay |-> RetryDelay(attempt), at |-> now, snap |-> <<>>]
    ELSE [pc |-> "dropped", attempt |-> attempt, delay |-> 0, at |-> 0, snap |-> <<>>]

\* the callback of sendMessage with chrome.runtime.lastError set: a retry
\* timer, or after maxRetries attempts the chrome.storage.local.get of the
\* queue fallback
AfterLastError(attempt) ==
  IF attempt < maxRetries
    THEN [pc |-> "timer", attempt |-> attempt + 1, delay |-> RetryDelay(attempt), at |-> now, snap |-> <<>>]
    ELSE [pc |-> "qread", attempt |-> attempt, delay |-> 0, at |-> 0, snap |-> store.pendingActivities]

\* sendWithRetry(attempt): sendMessage throws, or the message is on its way
Send(e, attempt, throws) ==
  disp' = [disp EXCEPT ![e] =
    IF throws THEN AfterThrow(attempt)
    ELSE [pc |-> "sent", attempt |-> attempt, delay |-> 0, at |-> 0, snap |-> <<>>]]

\* dispatchActivity(payload) in a tab of the installed extension: events are
\* detected in the order of their ids
Dispatch(e, p, throws) ==
  /\ alive \/ teardowns > 0
  /\ disp[e].pc = "idle"
  /\ \A d \in Events : d < e => disp[d].pc # "idle"
  /\ evPayload' = [evPayload EXCEPT ![e] = p]
  /\ evAt' = [evAt EXCEPT ![e] = now]
  /\ Send(e, 1, throws)
  /\ UNCHANGED <<now, store, alive, memVars, init, drain, hnd, popup, calls, shown,
                 posted, teardowns, commands, drainFrom>>

\* the click handler of a send control: it extracts the activity and calls
\* dispatchActivity; it neither reads nor writes _lastDispatchAt
Detect(e, p, throws) ==
  /\ Dispatch(e, p, throws)
  /\ evVia' = [evVia EXCEPT ![e] = "click"]
  /\ UNCHANGED <<_lastDispatchAt, evDom>>

\* handleGlobalKeydown on the send shortcut: a no-op within KeyDedupeMs of
\* the last keyboard dispatch, else it notes the time and dispatches
KeydownSend(e, p, throws) ==
  /\ ~(now - _lastDispatchAt < KeyDedupeMs)
  /\ _lastDispatchAt' = now
  /\ Dispatch(e, p, throws)
  /\ evVia' = [evVia EXCEPT ![e] = "key"]
  /\ UNCHANGED evDom

(* ---------------------- Extractor and its triggers --------------------- *)
Platforms == {"gmail", "outlook"}
\* whether the handler's search for the compose root, fallbacks included,
\* returns an element ("found") or null ("none")
Roots == {"found", "none"}

\* extractGmailEmailData / extractOutlookEmailData: every field of the
\* compose root is read through ?., so a null root gives empty fields; the
\* account email comes from the page, activityType and provider are literals
extractEmailData(platform, root, p) ==
  IF root = "found"
    THEN [p EXCEPT !.activityType = "email", !.provider = platform]
    ELSE [activityType |-> "email", provider |-> platform, subject |-> Null,
          sender |-> p.sender, recipients |-> <<>>]

\* what the click handler of a send control passes to dispatchActivity
\* (NoPayload: it returns before the call): Gmail's handler returns when
\* findComposeRoot gives null, Outlook's passes button.closest(...) on to the
\* extractor untested
ClickActivity(platform, root, p) ==
  IF platform = "gmail" /\ root = "none" THEN NoPayload
  ELSE extractEmailData(platform, root, p)

\* what handleGlobalKeydown passes to dispatchActivity: on both platforms it
\* returns when no compose root is found
KeyActivity(platform, root, p) ==
  IF root = "none" THEN NoPayload
  ELSE extractEmailData(platform, root, p)

\* a trigger whose handler returns without calling dispatchActivity
Dropped(e) ==
  /\ alive \/ teardowns > 0
  /\ disp[e].pc = "idle"
  /\ \A d \in Events : d < e => disp[d].pc # "idle"
  /\ disp' = [disp EXCEPT ![e].pc = "dropped"]
  /\ UNCHANGED <<now, store, alive, memVars, init, drain, hnd, popup, calls, shown,
                 posted, teardowns, commands, drainFrom, evPayload, evAt>>

\* a click on a recognized send control of a page of the platform; p is what
\* the compose fields hold
Click(e, platform, root, p, throws) ==
  /\ evDom' = [evDom EXCEPT ![e] = [platform |-> platform, root |-> root]]
  /\ evVia' = [evVia EXCEPT ![e] = "click"]
  /\ UNCHANGED _lastDispatchAt
  /\ LET activity == ClickActivity(platform, root, p) IN
     IF activity = NoPayload THEN Dropped(e) ELSE Dispatch(e, activity, throws)

\* the keyboard send shortcut on a page of the platform
Key(e, platform, root, p, throws) ==
  /\ ~(now - _lastDispatchAt < KeyDedupeMs)
  /\ evDom' = [evDom EXCEPT ![e] = [platform |-> platform, root |-> root]]
  /\ evVia' = [evVia EXCEPT ![e] = "key"]
  /\ LET activity == KeyActivity(platform, root, p) IN
     IF activity = NoPayload
       THEN Dropped(e) /\ UNCHANGED _lastDispatchAt
       ELSE _lastDispatchAt' = now /\ Dispatch(e, activity, throws)

\* the retry timer fires
TimerFire(e, throws) ==
  /\ disp[e].pc = "timer"
  /\ Send(e, disp[e].attempt, throws)
  /\ UNCHANGED <<now, store, alive, memVars, init, drain, hnd, popup, evPayload, posted, evDom, evVia, evAt, _lastDispatchAt,
                 calls, shown, teardowns, commands, drainFrom>>

\* the retry timer fires, no sooner than its delay after it was set
TimerDue(e, throws) ==
  /\ now >= disp[e].at + disp[e].delay
  /\ TimerFire(e, throws)

\* the callback runs with lastError set: no receiver took the message, or
\* the port closed before a response (the worker was torn down)
ChannelFail(e) ==
  /\ \/ disp[e].pc = "sent"
     \/ disp[e].pc = "await" /\ hnd[e].pc = "none"
  /\ disp' = [disp EXCEPT ![e] = AfterLastError(disp[e].attempt)]
  /\ UNCHANGED <<now, store, alive, memVars, init, drain, hnd, popup, evPayload, posted, evDom, evVia, evAt, _lastDispatchAt,
                 calls, shown, teardowns, commands, drainFrom>>

\* the callback of the fallback's get: list.push(item), then set
QueueWrite(e) ==
  /\ disp[e].pc = "qread"
  /\ store' = [store EXCEPT !.pendingActivities = Append(disp[e].snap, e)]
  /\ disp' = [disp EXCEPT ![e] = [pc |-> "queued", attempt |-> disp[e].attempt,
                                  delay |-> 0, at |-> 0, snap |-> <<>>]]
  /\ UNCHANGED <<now, alive, memVars, init, drain, hnd, popup, evPayload, posted, evDom, evVia, evAt, _lastDispatchAt, calls, shown,
                 teardowns, commands, drainFrom>>

(* ---------------------- onMessage: popup commands ---------------------- *)
PopupTypes ==
  {"GET_STATE", "SET_MODE", "SET_BACKEND_URL", "REFRESH_HEALTH", "CLEAR_STATS", "UNKNOWN"}

\* the payloads drawn for a command
PopupArgs(type) ==
  CASE type = "SET_MODE" -> {"silent", "awareness", "banana", Null}
    [] type = "SET_BACKEND_URL" ->
         {"api.example.com", "https://api.example.com/", "not a url, no scheme, no dots",
          "", "  ", NotAString}
    [] OTHER -> {Null}

\* setMode(nextMode)
setModeLax(S, nextMode) ==
  [S EXCEPT !.mode = IF nextMode = Null THEN "awareness" ELSE nextMode]
setMode(S, nextMode) ==
  [S EXCEPT !.mode = IF nextMode = "silent" THEN "silent" ELSE "awareness"]

\* clearStats()
clearStatsKeeps(S) == S
clearStatsResetsAll(S) ==
  [DefaultState EXCEPT !.lastSyncStatus = "synced"]
clearStats(S) ==
  [S EXCEPT !.totalActivitiesTracked = 0, !.lastSyncStatus = "synced",
            !.lastSyncAt = Null]

\* getSerializableState(): a copy of STATE (and the manifest's version)
getSerializableState(S) == S

\* sendResponse(result) of the popup listener
Replied(success) ==
  [popup EXCEPT !.pc = "replied", !.arg = Null, !.probeAt = 0,
                !.reply = [success |-> success], !.replies = @ + 1]

\* the popup sends a command
PopupSend(type, arg) ==
  /\ popup.pc \in {"none", "replied", "closed"}
  /\ commands < MaxCommands
  /\ commands' = commands + 1
  /\ popup' = [NoPopup EXCEPT !.pc = "sent", !.type = type, !.arg = arg,
                              !.prev = popup.type, !.mark = popup.mark]
  /\ UNCHANGED <<now, store, alive, memVars, init, drain, hnd, disp, evPayload, posted, evDom, evVia, evAt, _lastDispatchAt,
                 calls, shown, teardowns, drainFrom>>

\* the switch of handlePopupMessage, run once stateReady has resolved
RunCommand ==
  CASE popup.type = "GET_STATE" ->
         \* await ensureContentScripts()
         /\ popup' = [popup EXCEPT !.pc = "scripts"]
         /\ UNCHANGED <<State, store, shown>>
    [] popup.type = "SET_MODE" ->
         /\ State' = setMode(State, popup.arg)
         /\ store' = IF State'.mode = State.mode THEN store
                     ELSE Persist(store, State', {"mode"})
         /\ shown' = IF State'.mode = State.mode THEN shown ELSE State'
         \* broadcastMode: UPDATE_MODE to the open mail tabs
         /\ popup' = [Replied(TRUE) EXCEPT
                        !.sentMode = IF State'.mode = State.mode THEN Null ELSE State'.mode]
    [] popup.type = "SET_BACKEND_URL" ->
         IF sanitizeThrows(popup.arg) \/ sanitizeBaseUrl(popup.arg) = Null
           THEN \* setBackendBaseUrl throws: the listener's catch replies
                /\ popup' = Replied(FALSE)
                /\ UNCHANGED <<State, store, shown>>
           ELSE /\ State' = [State EXCEPT !.backendBaseUrl = sanitizeBaseUrl(popup.arg)]
                /\ store' = Persist(store, State', {"backendBaseUrl"})
                /\ shown' = State'
                /\ IF HealthMemoized(State, FALSE)
                     THEN popup' = Replied(TRUE)
                     ELSE popup' = [popup EXCEPT !.pc = "health", !.probeAt = now]
    [] popup.type = "REFRESH_HEALTH" ->
         /\ popup' = [popup EXCEPT !.pc = "health", !.probeAt = now]
         /\ UNCHANGED <<State, store, shown>>
    [] popup.type = "CLEAR_STATS" ->
         /\ State' = clearStats(State)
         /\ store' = Persist(store, State', AcceptFields)
         /\ shown' = State'
         /\ popup' = [Replied(TRUE) EXCEPT !.mark = calls]
    [] OTHER ->
         /\ popup' = Replied(FALSE)
         /\ UNCHANGED <<State, store, shown>>

\* a handlePopupMessage that would not await stateReady
PopupDeliverAtOnce ==
  /\ alive
  /\ popup.pc = "sent"
  /\ RunCommand
  /\ UNCHANGED <<now, alive, _lastActivityFingerprint, _lastActivityAt,
                 stateReady, init, drain, hnd, disp, evPayload, posted, evDom, evVia, evAt, _lastDispatchAt, calls,
                 teardowns, commands, drainFrom>>

\* the listener receives the command: handlePopupMessage awaits stateReady
PopupDeliver ==
  /\ alive
  /\ popup.pc = "sent"
  /\ IF stateReady
       THEN RunCommand
       ELSE /\ popup' = [popup EXCEPT !.pc = "waitReady"]
            /\ UNCHANGED <<State, store, shown>>
  /\ UNCHANGED <<now, alive, _lastActivityFingerprint, _lastActivityAt,
                 stateReady, init, drain, hnd, disp, evPayload, posted, evDom, evVia, evAt, _lastDispatchAt, calls,
                 teardowns, commands, drainFrom>>

\* stateReady has resolved: the waiting handlePopupMessage goes on
PopupResume ==
  /\ alive
  /\ popup.pc = "waitReady"
  /\ stateReady
  /\ RunCommand
  /\ UNCHANGED <<now, alive, _lastActivityFingerprint, _lastActivityAt,
                 stateReady, init, drain, hnd, disp, evPayload, posted, evDom, evVia, evAt, _lastDispatchAt, calls,
                 teardowns, commands, drainFrom>>

\* ensureContentScripts has returned: GET_STATE replies
PopupScriptsDone ==
  /\ alive
  /\ popup.pc = "scripts"
  /\ popup' = Replied(TRUE)
  /\ UNCHANGED <<now, store, alive, memVars, init, drain, hnd, disp, evPayload, posted, evDom, evVia, evAt, _lastDispatchAt,
                 calls, shown, teardowns, commands, drainFrom>>

\* the probe of SET_BACKEND_URL or REFRESH_HEALTH answers
PopupHealthDone(ok) ==
  /\ alive
  /\ popup.pc = "health"
  /\ State' = AfterProbe(State, ok, popup.probeAt)
  /\ popup' = [Replied(TRUE) EXCEPT !.fetched = IF ok THEN "ok" ELSE "failed"]
  /\ UNCHANGED <<now, store, alive, _lastActivityFingerprint, _lastActivityAt,
                 stateReady, init, drain, hnd, disp, evPayload, posted, evDom, evVia, evAt, _lastDispatchAt, calls, shown,
                 teardowns, commands, drainFrom>>

(* --------------------------- the specification ------------------------- *)
\* the extension has just been installed: nothing is stored, no worker runs
Init ==
  /\ now = TickMs
  /\ store = EmptyStore
  /\ alive = FALSE
  /\ State = DefaultState
  /\ _lastActivityFingerprint = Null
  /\ _lastActivityAt = 0
  /\ stateReady = FALSE
  /\ init = NoInit
  /\ drain = NoDrain
  /\ hnd = [e \in Events |-> NoHandler]
  /\ popup = NoPopup
  /\ disp = [e \in Events |-> NoDispatch]
  /\ evPayload = [e \in Events |-> NoPayload]
  /\ evVia = [e \in Events |-> "none"]
  /\ evAt = [e \in Events |-> 0]
  /\ _lastDispatchAt = 0
  /\ calls = [e \in Events |-> NoCalls]
  /\ shown = DefaultState
  /\ posted = [e \in Events |-> NoResponse]
  /\ evDom = [e \in Events |-> NoDom]
  /\ drainFrom = <<>>
  /\ teardowns = 0
  /\ commands = 0

Next ==
  \/ LifecycleStart
  \/ WakeByMessage
  \/ Teardown
  \/ Tick
  \/ HalfSecond
  \/ LongTick
  \/ Wait
  \/ InitRead
  \/ \E ok \in BOOLEAN : InitProbeDone(ok)
  \/ DrainRead
  \/ \E ok \in BOOLEAN : DrainProbeDone(ok)
  \/ \E outcome \in PostOutcomes : DrainPostDone(outcome)
  \/ DrainPauseOver
  \/ \E e \in Events : Deliver(e)
  \/ \E e \in Events, ok \in BOOLEAN : HandlerProbeDone(e, ok)
  \/ \E e \in Events, outcome \in PostOutcomes : HandlerPostDone(e, outcome)
  \/ \E e \in Events, p \in Payloads, throws \in BOOLEAN : Detect(e, p, throws)
  \/ \E e \in Events, p \in Payloads, throws \in BOOLEAN : KeydownSend(e, p, throws)
  \/ \E e \in Events, pf \in Platforms, root \in Roots, p \in Payloads, throws \in BOOLEAN :
       Click(e, pf, root, p, throws) \/ Key(e, pf, root, p, throws)
  \/ \E e \in Events, outcome \in PostOutcomes : PostAnswers(e, outcome)
  \/ \E e \in Events, throws \in BOOLEAN : TimerFire(e, throws)
  \/ \E e \in Events : ChannelFail(e)
  \/ \E e \in Events : QueueWrite(e)
  \/ \E type \in PopupTypes : \E arg \in PopupArgs(type) : PopupSend(type, arg)
  \/ PopupDeliver
  \/ PopupResume
  \/ PopupScriptsDone
  \/ \E ok \in BOOLEAN : PopupHealthDone(ok)

Spec == Init /\ [][Next]_vars

(* ------------------------ scenario specifications ---------------------- *)
(* Next is the whole system.  The properties below are stated under       *)
(* restrictions of it, each leaving out a part of the environment.         *)

\* PipelineSpec: the activity pipeline over an unreliable channel and a
\* worker that may be torn down; no popup
PipelineNext ==
  \/ LifecycleStart
  \/ WakeByMessage
  \/ Teardown
  \/ Tick
  \/ InitRead
  \/ \E ok \in BOOLEAN : InitProbeDone(ok)
  \/ DrainRead
  \/ \E ok \in BOOLEAN : DrainProbeDone(ok)
  \/ \E outcome \in PostOutcomes : DrainPostDone(outcome)
  \/ DrainPauseOver
  \/ \E e \in Events : Deliver(e)
  \/ \E e \in Events, ok \in BOOLEAN : HandlerProbeDone(e, ok)
  \/ \E e \in Events, outcome \in PostOutcomes : HandlerPostDone(e, outcome)
  \/ \E e \in 1..MaxRetried, p \in Payloads, throws \in BOOLEAN : Detect(e, p, throws)
  \/ \E e \in Events, throws \in BOOLEAN : TimerFire(e, throws)
  \/ \E e \in Events : ChannelFail(e)
  \/ \E e \in Events : QueueWrite(e)

PipelineSpec == Init /\ [][PipelineNext]_vars

\* the entries a persisted queue may hold
Items == Events \cup {NullItem, NoPayloadItem}

\* the events among the entries of q, in queue order
RECURSIVE EventsOf(_)
EventsOf(q) ==
  IF q = <<>> THEN <<>>
  ELSE IF Head(q) \in Events THEN <<Head(q)>> \o EventsOf(Tail(q))
  ELSE EventsOf(Tail(q))

\* the queues a cold start may find: events 1..k queued in the order of
\* their detection, entries that are no queue item anywhere among them
ColdQueues(max) ==
  {q \in UNION {[1..n -> Items] : n \in 0..max} :
     \A i \in 1..Len(EventsOf(q)) : EventsOf(q)[i] = i}

\* the stores a cold start may find, the queue apart
ColdStores ==
  {EmptyStore,
   [mode |-> "silent", backendBaseUrl |-> "https://api.example.com",
    totalActivitiesTracked |-> 2, lastSyncStatus |-> "success",
    lastSyncAt |-> Instant, pendingActivities |-> <<>>],
   [mode |-> "awareness", backendBaseUrl |-> DEFAULT_BACKEND_BASE_URL,
    totalActivitiesTracked |-> 1, lastSyncStatus |-> "error",
    lastSyncAt |-> Instant, pendingActivities |-> <<>>]}

\* stores whose contents no run of this version has written: an unknown mode
\* and a malformed URL, a URL that is no string
CorruptStores ==
  {[mode |-> "banana", backendBaseUrl |-> "not a url, no scheme, no dots",
    totalActivitiesTracked |-> NoCount, lastSyncStatus |-> Absent,
    lastSyncAt |-> Absent, pendingActivities |-> <<>>],
   [mode |-> "silent", backendBaseUrl |-> NotAString,
    totalActivitiesTracked |-> 2, lastSyncStatus |-> "success",
    lastSyncAt |-> Instant, pendingActivities |-> <<>>]}

\* the browser starts on one of the given stores and a queue of at most max
\* entries
StartOn(stores, max) ==
  /\ now = TickMs
  /\ \E st \in stores, q \in ColdQueues(max) :
       /\ store = [st EXCEPT !.pendingActivities = q]
       /\ disp = [e \in Events |->
            IF \E i \in 1..Len(q) : q[i] = e
              THEN [pc |-> "queued", attempt |-> maxRetries, delay |-> 0, at |-> 0, snap |-> <<>>]
              ELSE NoDispatch]
       /\ evPayload \in {f \in [Events -> Payloads \cup {NoPayload}] :
            \A e \in Events : (f[e] = NoPayload) <=> ~(\E i \in 1..Len(q) : q[i] = e)}
  /\ evVia = [e \in Events |-> "none"]
  /\ evAt = [e \in Events |->
       IF disp[e].pc = "queued" THEN now - (MaxEvents + 1 - e) * ColdGapMs ELSE 0]
  /\ _lastDispatchAt = 0
  /\ alive = FALSE
  /\ State = DefaultState
  /\ _lastActivityFingerprint = Null
  /\ _lastActivityAt = 0
  /\ stateReady = FALSE
  /\ init = NoInit
  /\ drain = NoDrain
  /\ hnd = [e \in Events |-> NoHandler]
  /\ popup = NoPopup
  /\ calls = [e \in Events |-> NoCalls]
  /\ shown = DefaultState
  /\ posted = [e \in Events |-> NoResponse]
  /\ evDom = [e \in Events |-> NoDom]
  /\ drainFrom = <<>>
  /\ teardowns = 0
  /\ commands = 0

\* the browser starts on a store and a queue left by earlier runs
ColdInit(max) == StartOn(ColdStores, max)

\* the events detected since the start
LiveCount == Cardinality({e \in Events : disp[e].pc \notin {"idle", "queued"}})

ColdNext ==
  \/ LifecycleStart
  \/ InitRead
  \/ \E ok \in BOOLEAN : InitProbeDone(ok)
  \/ DrainRead
  \/ \E ok \in BOOLEAN : DrainProbeDone(ok)
  \/ \E outcome \in PostOutcomes : DrainPostDone(outcome)
  \/ DrainPauseOver
  \/ \E e \in Events : Deliver(e)
  \/ \E e \in Events, ok \in BOOLEAN : HandlerProbeDone(e, ok)
  \/ \E e \in Events, outcome \in PostOutcomes : HandlerPostDone(e, outcome)
  \/ \E e \in Events, p \in Payloads : LiveCount < MaxLive /\ Detect(e, p, FALSE)

\* ColdStartSpec: a cold start on a populated store with tabs open, which
\* reach the worker (no channel failure); no teardown, no popup, and all of
\* it within one reading of the clock
ColdStartInit == ColdInit(MaxLeft)

ColdStartSpec == ColdStartInit /\ [][ColdNext]_vars

\* LiveSpec: the first start of the installed extension with tabs open,
\* which reach the worker; all of it within one reading of the clock
LiveNext ==
  \/ LifecycleStart
  \/ InitRead
  \/ \E ok \in BOOLEAN : InitProbeDone(ok)
  \/ DrainRead
  \/ \E e \in Events : Deliver(e)
  \/ \E e \in Events, ok \in BOOLEAN : HandlerProbeDone(e, ok)
  \/ \E e \in Events, outcome \in PostOutcomes : HandlerPostDone(e, outcome)
  \/ \E e \in Events, p \in Payloads : Detect(e, p, FALSE)
  \/ \E e \in Events, p \in Payloads : KeydownSend(e, p, FALSE)

LiveSpec == Init /\ [][LiveNext]_vars

\* StatsSpec: a start on a store left by earlier runs or corrupt, with the
\* popup open
\* and a tab that reaches the worker; no teardown, one reading of the clock
StatsInit == StartOn(ColdStores \cup CorruptStores, 0)

StatsNext ==
  \/ LifecycleStart
  \/ InitRead
  \/ \E ok \in BOOLEAN : InitProbeDone(ok)
  \/ DrainRead
  \/ \E e \in Events : Deliver(e)
  \/ \E e \in Events, ok \in BOOLEAN : HandlerProbeDone(e, ok)
  \/ \E e \in Events, outcome \in PostOutcomes : HandlerPostDone(e, outcome)
  \/ \E e \in Events, p \in Payloads : LiveCount < MaxLive /\ Detect(e, p, FALSE)
  \/ \E type \in PopupTypes : \E arg \in PopupArgs(type) :
       alive /\ PopupSend(type, arg)
  \/ PopupDeliver
  \/ PopupResume
  \/ PopupScriptsDone
  \/ \E ok \in BOOLEAN : PopupHealthDone(ok)

StatsSpec == StatsInit /\ [][StatsNext]_vars

\* DrainSpec: a cold start on a populated store and nothing else
DrainInit == ColdInit(MaxQueue)

DrainNext ==
  \/ LifecycleStart
  \/ Tick
  \/ InitRead
  \/ \E ok \in BOOLEAN : InitProbeDone(ok)
  \/ DrainRead
  \/ \E ok \in BOOLEAN : DrainProbeDone(ok)
  \/ \E outcome \in PostOutcomes : DrainPostDone(outcome)
  \/ DrainPauseOver

DrainSpec == DrainInit /\ [][DrainNext]_vars

\* PopupSpec: the popup and a worker that is torn down only while it has
\* nothing to answer; no content script.  Every task of the worker that is
\* ready to run does run: the event loop and the host runtime leave no task
\* of a running worker waiting forever, and a message in the channel starts
\* the stopped worker
PopupNext ==
  \/ LifecycleStart
  \/ WakeByMessage
  \/ popup.pc \in {"none", "replied"} /\ Teardown
  \/ InitRead
  \/ \E ok \in BOOLEAN : InitProbeDone(ok)
  \/ DrainRead
  \/ \E type \in PopupTypes : \E arg \in PopupArgs(type) :
       (alive \/ teardowns > 0) /\ PopupSend(type, arg)
  \/ PopupDeliver
  \/ PopupResume
  \/ PopupScriptsDone
  \/ \E ok \in BOOLEAN : PopupHealthDone(ok)

PopupFairness ==
  /\ WF_vars(WakeByMessage)
  /\ WF_vars(InitRead)
  /\ WF_vars(\E ok \in BOOLEAN : InitProbeDone(ok))
  /\ WF_vars(DrainRead)
  /\ WF_vars(PopupDeliver)
  /\ WF_vars(PopupResume)
  /\ WF_vars(PopupScriptsDone)
  /\ WF_vars(\E ok \in BOOLEAN : PopupHealthDone(ok))

PopupSpec == Init /\ [][PopupNext]_vars /\ PopupFairness

\* the cold-start drain of the running worker has finished, or the worker
\* was stopped after it and, if it runs again, was started for a message
DrainOver == drain.pc = "done" \/ (teardowns > 0 /\ init.pc = "none")

\* QueueSpec: a fresh install; tabs detect activities on a channel that may
\* fail, and append to the queue only once the cold-start drain is over; the
\* worker may be stopped after its drain and started again, by a message or
\* by the browser.  Every task of the worker and every callback of a tab
\* that is ready to run does run, and a message in the channel starts the
\* stopped worker; nothing makes the browser restart
QueueNext ==
  \/ LifecycleStart
  \/ WakeByMessage
  \/ drain.pc = "done" /\ Teardown
  \/ InitRead
  \/ \E ok \in BOOLEAN : InitProbeDone(ok)
  \/ DrainRead
  \/ \E ok \in BOOLEAN : DrainProbeDone(ok)
  \/ \E outcome \in PostOutcomes : DrainPostDone(outcome)
  \/ DrainPauseOver
  \/ \E e \in Events : Deliver(e)
  \/ \E e \in Events, ok \in BOOLEAN : HandlerProbeDone(e, ok)
  \/ \E e \in Events, outcome \in PostOutcomes : HandlerPostDone(e, outcome)
  \/ \E e \in 1..MaxLive, p \in Payloads : Detect(e, p, FALSE)
  \/ \E e \in Events : TimerFire(e, FALSE)
  \/ \E e \in Events : ChannelFail(e)
  \/ \E e \in Events : DrainOver /\ QueueWrite(e)

QueueFairness ==
  /\ WF_vars(WakeByMessage)
  /\ WF_vars(InitRead)
  /\ WF_vars(\E ok \in BOOLEAN : InitProbeDone(ok))
  /\ WF_vars(DrainRead)
  /\ WF_vars(\E ok \in BOOLEAN : DrainProbeDone(ok))
  /\ WF_vars(\E outcome \in PostOutcomes : DrainPostDone(outcome))
  /\ WF_vars(DrainPauseOver)
  /\ WF_vars(\E e \in Events : Deliver(e))
  /\ WF_vars(\E e \in Events, ok \in BOOLEAN : HandlerProbeDone(e, ok))
  /\ WF_vars(\E e \in Events, outcome \in PostOutcomes : HandlerPostDone(e, outcome))
  /\ WF_vars(\E e \in Events : TimerFire(e, FALSE))
  /\ WF_vars(\E e \in Events : DrainOver /\ QueueWrite(e))

QueueSpec == Init /\ [][QueueNext]_vars /\ QueueFairness

\* SilentSpec: the first start of the installed extension with a tab that
\* reaches the worker, and a backend that may leave a request unanswered.
\* Every task of the worker that is ready to run does run; nothing makes
\* the backend answer, and the code sets no timer on its fetch calls
SilentNext ==
  \/ LifecycleStart
  \/ InitRead
  \/ \E ok \in BOOLEAN : InitProbeDone(ok)
  \/ DrainRead
  \/ \E e \in Events : Deliver(e)
  \/ \E e \in Events, ok \in BOOLEAN : HandlerProbeDone(e, ok)
  \/ \E e \in Events, outcome \in PostOutcomes : HandlerPostDone(e, outcome)
  \/ \E e \in 1..MaxRetried, p \in Payloads : Detect(e, p, FALSE)

SilentFairness ==
  /\ WF_vars(InitRead)
  /\ WF_vars(DrainRead)
  /\ WF_vars(\E e \in Events : Deliver(e))

SilentSpec == Init /\ [][SilentNext]_vars /\ SilentFairness

\* HealthSpec: the popup sets the backend URL or asks for a refresh, on a
\* worker that stays up while seconds and minutes pass; no content script
HealthTypes == {"SET_BACKEND_URL", "REFRESH_HEALTH"}

HealthNext ==
  \/ LifecycleStart
  \/ Tick
  \/ LongTick
  \/ InitRead
  \/ \E ok \in BOOLEAN : InitProbeDone(ok)
  \/ DrainRead
  \/ \E type \in HealthTypes : \E arg \in PopupArgs(type) :
       alive /\ PopupSend(type, arg)
  \/ PopupDeliver
  \/ PopupResume
  \/ \E ok \in BOOLEAN : PopupHealthDone(ok)

HealthSpec == Init /\ [][HealthNext]_vars

\* RetrySpec: one tab's dispatch of an activity over a channel that may
\* fail or throw, with the retry timers held to their delays, and a worker
\* that stays up and reaches its backend
RetryNext ==
  \/ LifecycleStart
  \/ Wait
  \/ InitRead
  \/ InitProbeDone(TRUE)
  \/ DrainRead
  \/ \E e \in Events : Deliver(e)
  \/ \E e \in Events : HandlerPostDone(e, OkResponse)
  \/ \E e \in 1..MaxLive, throws \in BOOLEAN : Detect(e, PayloadA, throws)
  \/ \E e \in Events, throws \in BOOLEAN : TimerDue(e, throws)
  \/ \E e \in Events : ChannelFail(e)
  \/ \E e \in Events : QueueWrite(e)

RetrySpec == Init /\ [][RetryNext]_vars

(* ------------------------------- claims -------------------------------- *)
\* the outcomes with which a call of handleActivityEvent ends after the
\* dedupe test has let it pass
Delivered == {"success", "error", "unreachable"}

\* C1: every call of handleActivityEvent with a payload that the dedupe test
\* lets pass adds exactly 1 to totalActivitiesTracked, whether the delivery
\* ends in success, in an error or with the backend unreachable; a call that
\* is absorbed as a duplicate adds 0.
C1_EachAcceptedCallCountsOnce ==
  \A e \in Events :
    /\ calls[e].inc = calls[e].handled - calls[e].absorbed
    /\ calls[e].outcome \in Delivered \cup {"running"} => calls[e].inc = 1
    /\ calls[e].outcome = "absorbed" => calls[e].inc = 0

\* one call has ended in a failed delivery or with the backend unreachable
\* and has counted once, another call was absorbed
C1_Witness ==
  \E e, d \in Events :
    /\ calls[e].outcome \in {"error", "unreachable"}
    /\ calls[e].inc = 1
    /\ calls[d].outcome = "absorbed"
    /\ calls[d].handled = 1

\* C2: of the events with one fingerprint that reach handleActivityEvent
\* within DedupeWindowMs of each other only the first is counted, whatever
\* other events are handled in between.  (A run starts at now = TickMs, so
\* its calls are at most now - TickMs apart.)
C2_OnlyFirstOfAFingerprintCounts ==
  now - TickMs < DedupeWindowMs =>
    \A e, d \in Events :
      (/\ e # d
       /\ calls[e].handled > 0
       /\ calls[d].handled > 0
       /\ Fingerprint(evPayload[e]) = Fingerprint(evPayload[d]))
      => ~(calls[e].inc > 0 /\ calls[d].inc > 0)

\* the dispatch of e is still under way
InFlight(e) == disp[e].pc \in {"sent", "await", "timer", "qread"}

\* C3: a dispatched event ends acknowledged or in the persisted queue; no
\* sequence of channel failures leaves it in neither.
C3_EndsAckedOrQueued ==
  \A e \in Events :
    (disp[e].pc # "idle" /\ ~InFlight(e)) => disp[e].pc \in {"acked", "queued"}

\* the number of entries of q that are x
RECURSIVE Count(_, _)
Count(x, q) ==
  IF q = <<>> THEN 0
  ELSE (IF Head(q) = x THEN 1 ELSE 0) + Count(x, Tail(q))

\* C4: the events that fail after the retry bound are in the persisted queue
\* exactly once each and in the order of their detection, overlapping
\* appends included.  (Stated while no drain has found anything to remove.)
C4_QueuedOnceInOrder ==
  (teardowns = 0 /\ drainFrom = <<>>) =>
    /\ \A e \in Events :
         disp[e].pc = "queued" => Count(e, store.pendingActivities) = 1
    /\ \A i, j \in 1..Len(store.pendingActivities) :
         i < j => store.pendingActivities[i] < store.pendingActivities[j]

\* the position of the first entry of q that makes the drain's body throw,
\* Len(q) + 1 if there is none
RECURSIVE FirstThrow(_)
FirstThrow(q) ==
  IF q = <<>> \/ Head(q) = NullItem THEN 1 ELSE 1 + FirstThrow(Tail(q))

\* C5: the drain handles the queue it read first in, first out and halts at
\* the first item whose handling throws: that item and all after it stay
\* persisted in their order, none of them handled; [A, B, C] with B throwing
\* leaves [B, C].
C5_DrainFifoHaltsAtThrow ==
  LET k == FirstThrow(drainFrom) IN
  /\ drain.pc = "done" =>
       store.pendingActivities = SubSeq(drainFrom, k, Len(drainFrom))
  /\ \A i \in 1..Len(drainFrom) :
       (drainFrom[i] \in Events /\ calls[drainFrom[i]].handled > 0) =>
         /\ i < k
         /\ calls[drainFrom[i]].handled = 1
         /\ \A j \in 1..(i - 1) :
              drainFrom[j] \in Events => calls[drainFrom[j]].outcome \in Delivered \cup {"absorbed"}

\* the drain of [A, B, C] with B throwing has ended with [B, C] persisted
C5_Witness ==
  /\ drain.pc = "done"
  /\ Len(drainFrom) = 3
  /\ drainFrom[1] \in Events
  /\ drainFrom[2] = NullItem
  /\ drainFrom[3] \in Events
  /\ calls[drainFrom[1]].handled = 1
  /\ calls[drainFrom[3]].handled = 0
  /\ store.pendingActivities = <<NullItem, drainFrom[3]>>

\* e is an entry of q
InQueue(e, q) == \E i \in 1..Len(q) : q[i] = e

\* C6: an item leaves the persisted queue only after its onActivity has
\* completed, and an item appended while a drain runs survives the drain's
\* next write: on every step of the drain each event that leaves the
\* persisted queue has been handled to the end.
C6_DrainRemovesOnlyHandled ==
  [][(alive /\ alive' /\ drain' # drain) =>
       \A e \in Events :
         (InQueue(e, store.pendingActivities) /\ ~InQueue(e, store'.pendingActivities))
           => calls'[e].outcome \in Delivered \cup {"absorbed"}]_vars

\* p is q or the beginning of q
IsPrefix(p, q) == Len(p) <= Len(q) /\ SubSeq(q, 1, Len(p)) = p

\* C7: clients only append to the persisted queue, they never remove an
\* entry or put one back: the write of a client keeps every entry of the
\* queue as it is and adds the client's own item at the end.
C7_ClientsOnlyAppend ==
  [][\A e \in Events :
       (disp[e].pc = "qread" /\ disp'[e].pc = "queued") =>
         /\ IsPrefix(store.pendingActivities, store'.pendingActivities)
         /\ Len(store'.pendingActivities) = Len(store.pendingActivities) + 1]_vars

C9_HandlesOnRehydratedState ==
  [][\A e \in Events :
       (teardowns > 0 /\ disp[e].pc = "sent" /\ calls'[e].handled > calls[e].handled)
         => init.pc \in {"probe", "done"}]_vars

\* C10: every popup command gets a reply, also when the worker was started
\* only to handle that message.
C10_EveryCommandReplied ==
  (popup.pc = "sent") ~> (popup.pc = "replied")

\* the step is the popup's CLEAR_STATS command being run
ClearStatsStep ==
  /\ popup.type = "CLEAR_STATS"
  /\ popup.pc \in {"sent", "waitReady"}
  /\ popup'.pc = "replied"

\* C11: the persisted totalActivitiesTracked never decreases except through
\* an explicit clearStats, over any sequence of activities, popup commands,
\* teardowns and starts of the worker.
C11_PersistedCounterMonotonic ==
  [][ClearStatsStep \/ store'.totalActivitiesTracked >= store.totalActivitiesTracked]_vars

\* C12: when one send action fires both the click handler and the keyboard
\* handler of one content script within KeyDedupeMs, in either order, at most
\* one ACTIVITY_DETECTED message is sent for it: of two events with the same
\* payload, one detected by each handler, not both are dispatched.  (A run
\* starts at now = TickMs, so its detections are at most now - TickMs apart.)
C12_ClickAndShortcutSendOnce ==
  now - TickMs < KeyDedupeMs =>
    \A e, d \in Events :
      (evVia[e] = "click" /\ evVia[d] = "key" /\ evPayload[e] = evPayload[d])
        => ~(disp[e].pc # "idle" /\ disp[d].pc # "idle")

\* the call of handleActivityEvent for e has ended
Ended(e) == calls[e].outcome \in Delivered \cup {"absorbed"}

\* C13: two events with one fingerprint whose detections are more than
\* DedupeWindowMs apart are each accepted by the Coordinator, each counted
\* and each forwarded, as live messages and as items of the persisted queue
\* during a drain.
C13_FarApartDetectionsBothCount ==
  \A e, d \in Events :
    (/\ e # d
     /\ Ended(e) /\ Ended(d)
     /\ Fingerprint(evPayload[e]) = Fingerprint(evPayload[d])
     /\ evAt[d] - evAt[e] > DedupeWindowMs)
    => /\ calls[e].absorbed = 0 /\ calls[e].inc = calls[e].handled
       /\ calls[d].absorbed = 0 /\ calls[d].inc = calls[d].handled

\* the step runs the popup's command of the given type
Runs(type) ==
  /\ popup.type = type
  /\ popup.pc \in {"sent", "waitReady"}
  /\ popup'.pc \notin {"sent", "waitReady"}

\* C14: setBackendBaseUrl with an input that is neither a valid absolute URL
\* nor a bare host ("not a url, no scheme, no dots", an empty or blank
\* string) leaves backendBaseUrl and its persisted value unchanged and the
\* caller gets {success: false, error}; with "api.example.com" it sets
\* backendBaseUrl to "https://api.example.com".
C14_SetBackendUrlValidates ==
  [][Runs("SET_BACKEND_URL") =>
       /\ popup.arg \in {"not a url, no scheme, no dots", "", "  "} =>
            /\ State'.backendBaseUrl = State.backendBaseUrl
            /\ store'.backendBaseUrl = store.backendBaseUrl
            /\ popup'.pc = "replied"
            /\ popup'.reply.success = FALSE
       /\ popup.arg = "api.example.com" =>
            /\ State'.backendBaseUrl = "https://api.example.com"
            /\ store'.backendBaseUrl = "https://api.example.com"
            /\ popup'.pc \in {"health", "replied"}
            /\ popup'.pc = "replied" => popup'.reply.success]_vars

\* a SET_BACKEND_URL command has been refused and the URL is the default
C14_Witness ==
  /\ popup.type = "SET_BACKEND_URL"
  /\ popup.pc = "replied"
  /\ ~popup.reply.success
  /\ stateReady
  /\ State.backendBaseUrl = DEFAULT_BACKEND_BASE_URL

\* the step sends the reply of a GET_STATE that follows a CLEAR_STATS
GetStateAfterClearReplies ==
  /\ popup.type = "GET_STATE"
  /\ popup.prev = "CLEAR_STATS"
  /\ popup.pc = "scripts"
  /\ popup'.pc = "replied"

\* the statistics of a reported state are those clearStats leaves
Cleared(S) ==
  /\ S.totalActivitiesTracked = 0
  /\ S.lastSyncStatus \in {"idle", "synced"}
  /\ S.lastSyncAt = Null

ValidUrl(u) == ~sanitizeThrows(u) /\ sanitizeBaseUrl(u) = u

\* C16: in every reachable state mode is awareness or silent and
\* backendBaseUrl is a valid absolute URL, whatever the store holds at
\* rehydration and whatever SET_MODE / SET_BACKEND_URL payloads arrive, and
\* rehydration always completes on such contents.
C16_ModeAndUrlAlwaysValid ==
  /\ State.mode \in {"awareness", "silent"}
  /\ ValidUrl(State.backendBaseUrl)
  /\ init.pc # "failed"

\* the values the data model gives lastSyncStatus
SyncStatuses == {"idle", "syncing", "success", "error"}

\* C17: in every reachable state, in memory and in the store, lastSyncStatus
\* is one of idle, syncing, success, error.
C17_SyncStatusInEnum ==
  /\ State.lastSyncStatus \in SyncStatuses
  /\ store.lastSyncStatus \in SyncStatuses \cup {Absent}

\* p is q or the end of q
IsSuffix(p, q) ==
  Len(p) <= Len(q) /\ SubSeq(q, Len(q) - Len(p) + 1, Len(q)) = p

\* the step is a client's write of the persisted queue
ClientWrites == \E e \in Events : disp[e].pc = "qread" /\ disp'[e].pc = "queued"

\* C18: the Coordinator never appends to pendingActivities: a write of the
\* queue by the Coordinator writes the end of the list its drain read, and
\* when onActivity ends in error (backend unreachable or the POST failed)
\* the event is not in the persisted queue afterwards and the increment of
\* totalActivitiesTracked made for it is kept.
C18_NoRequeueOnError ==
  [][/\ (store'.pendingActivities # store.pendingActivities /\ ~ClientWrites)
          => /\ IsSuffix(store'.pendingActivities, drainFrom)
             /\ Len(store'.pendingActivities) < Len(drainFrom)
     /\ \A e \in Events :
          (calls[e].outcome = "running" /\ calls'[e].outcome \in {"error", "unreachable"})
            => /\ ~InQueue(e, store'.pendingActivities)
               /\ calls'[e].inc = calls'[e].handled - calls'[e].absorbed
               /\ State'.totalActivitiesTracked = State.totalActivitiesTracked
               /\ store'.totalActivitiesTracked = store.totalActivitiesTracked]_vars

\* a live event and a queued one have both ended in error, both are counted
\* and neither is in the persisted queue
C18_Witness ==
  \E e, d \in Events :
    /\ disp[e].pc = "acked" /\ disp[d].pc = "queued"
    /\ calls[e].outcome \in {"error", "unreachable"}
    /\ calls[d].outcome \in {"error", "unreachable"}
    /\ State.totalActivitiesTracked >= 2
    /\ store.pendingActivities = <<>>

\* the listener's handler of e's message settles at this step
HandlerSettles(e) == hnd[e].pc \in {"probe", "post"} /\ hnd'[e].pc = "none"

\* some earlier call ended with the backend unreachable or the POST failing
SomeCallFailed == \E d \in Events : calls[d].outcome \in {"error", "unreachable"}

\* C19: whatever the backend does (unreachable, network error, non-ok
\* response, unparsable body, success:false), handleActivityEvent settles
\* without raising: the step that ends it answers the waiting message with
\* {acknowledged: true}, leaves the worker running and the other handlers
\* alone; an answered message is never answered again; and a message that
\* arrives after a failed call is handled as any other (counted once unless
\* it is a duplicate, then answered or awaiting its backend call).
C19_EveryOutcomeAcknowledged ==
  [][\A e \in Events :
       /\ HandlerSettles(e) =>
            /\ disp[e].pc = "await" /\ disp'[e].pc = "acked"
            /\ calls[e].outcome = "running" /\ calls'[e].outcome \in Delivered
            /\ alive'
            /\ \A d \in Events \ {e} : hnd'[d] = hnd[d] /\ disp'[d] = disp[d]
       /\ disp[e].pc = "acked" => disp'[e].pc = "acked"
       /\ (SomeCallFailed /\ disp[e].pc = "sent" /\ disp'[e].pc # "sent") =>
            /\ calls'[e].handled = calls[e].handled + 1
            /\ calls'[e].inc = calls[e].inc
                  + (IF IsDuplicate(Fingerprint(evPayload[e])) THEN 0 ELSE 1)
            /\ disp'[e].pc = (IF IsDuplicate(Fingerprint(evPayload[e]))
                                THEN "acked" ELSE "await")]_vars

\* reachable: one call ended with the backend unreachable, one with a failed
\* POST, one with a success, and all three messages are answered
C19_Witness ==
  \E e, d, f \in Events :
    /\ calls[e].outcome = "unreachable" /\ calls[d].outcome = "error"
    /\ calls[f].outcome = "success"
    /\ \A x \in {e, d, f} : disp[x].pc = "acked" /\ calls[x].handled = 1

\* C20: an item that is in pendingActivities once the cold-start drain is
\* over is eventually passed to handleActivityEvent and removed from the
\* queue, by the running worker or by a worker started for a message.
C20_LateItemsAreDrained ==
  \A e \in Events :
    (DrainOver /\ InQueue(e, store.pendingActivities))
      ~> (calls[e].handled > 0 /\ ~InQueue(e, store.pendingActivities))

\* the drain's call of handleActivityEvent for its head item e ends at this
\* step with the backend unreachable or the POST failed
DrainItemFails(e) ==
  /\ drain.pc \in {"probe", "post"}
  /\ Head(drain.list) = e
  /\ calls[e].outcome = "running"
  /\ calls'[e].outcome \in {"error", "unreachable"}

\* C21: when the handling of the drain's head item fails (the delivery
\* fails or is aborted because the backend is unreachable), the item stays
\* at the head of the persisted queue and the drain halts.
C21_FailedItemStaysAtHead ==
  [][\A e \in Events :
       DrainItemFails(e) =>
         /\ store'.pendingActivities = store.pendingActivities
         /\ Len(store'.pendingActivities) > 0
         /\ Head(store'.pendingActivities) = e
         /\ drain'.pc = "done"]_vars

\* the edges of lastSyncStatus: idle -> syncing -> {success, error}, and
\* back to syncing from either end
SyncEdges ==
  {<<"idle", "syncing">>, <<"syncing", "success">>, <<"syncing", "error">>,
   <<"success", "syncing">>, <<"error", "syncing">>}

\* C22: once the state is rehydrated, a change of lastSyncStatus away from
\* success or error, made by a worker that stays up, follows one of the
\* edges (success->syncing, error->syncing), whatever the interleaving of
\* the handlers whose backend calls overlap.
C22_SyncStatusFollowsEdges ==
  [][(/\ stateReady /\ stateReady'
      /\ State.lastSyncStatus \in {"success", "error"}
      /\ State'.lastSyncStatus # State.lastSyncStatus)
       => <<State.lastSyncStatus, State'.lastSyncStatus>> \in SyncEdges]_vars

\* C23: whenever lastSyncStatus is syncing it eventually becomes success
\* or error, and a cold start that is waiting for its initial probe
\* eventually resolves stateReady, also when the backend leaves the probe
\* or the POST unanswered.
C23_SyncingAndStartupEnd ==
  /\ (State.lastSyncStatus = "syncing") ~> (State.lastSyncStatus \in {"success", "error"})
  /\ (init.pc = "probe") ~> stateReady

\* the forced probe made for e, by the listener's handler or by the drain,
\* answers at this step and finds the backend unreachable
ProbeFindsUnreachable(e) ==
  /\ \/ hnd[e].pc = "probe" /\ hnd'[e] # hnd[e]
     \/ drain.pc = "probe" /\ Head(drain.list) = e /\ drain' # drain
  /\ alive'
  /\ ~State'.isBackendReachable

\* C24: when the probe made before the delivery of e finds the backend
\* unreachable, the call for e ends at that step: it issues no POST and no
\* second probe, lastSyncStatus is error in memory and in the store, and
\* the failure notification is created.
C24_UnreachableAbortsDelivery ==
  [][\A e \in Events :
       ProbeFindsUnreachable(e) =>
         /\ hnd'[e].pc = "none"
         /\ ~(drain'.pc \in {"probe", "post"} /\ Head(drain'.list) = e)
         /\ calls'[e].outcome = "unreachable"
         /\ calls'[e].handled = calls[e].handled
         /\ calls'[e].notice = "Sync Error"
         /\ State'.lastSyncStatus = "error"
         /\ store'.lastSyncStatus = "error"]_vars

\* reachable: a live message and a drained item both ended on an
\* unreachable backend, with the notification, and the status is error
C24_Witness ==
  \E e, d \in Events :
    /\ calls[e].outcome = "unreachable" /\ disp[e].pc = "acked"
    /\ calls[d].outcome = "unreachable" /\ disp[d].pc = "queued"
    /\ calls[e].notice = "Sync Error" /\ calls[d].notice = "Sync Error"
    /\ State.lastSyncStatus = "error"

\* the listener starts a call of handleActivityEvent for e that is not
\* absorbed as a duplicate
CallStarts(e) == hnd[e].pc = "none" /\ hnd'[e].pc \in {"probe", "post"}

\* C25: a call of handleActivityEvent that goes on to the backend makes the
\* forced health probe first exactly when no probe has run since the worker
\* started, the last probe is older than HealthStaleMs, or the last probe
\* found the backend unreachable; otherwise it posts at once.
C25_ProbesWhenStaleUnknownOrDown ==
  [][\A e \in Events :
       CallStarts(e) =>
         (hnd'[e].pc = "probe"
            <=> \/ State.lastHealthCheck = NoCheck
                \/ now - State.lastHealthCheck > HealthStaleMs
                \/ ~State.isBackendReachable)]_vars

\* performHealthCheck() is called without force at this step: by the
\* callback of initializeState's read, or by SET_BACKEND_URL once the new
\* URL is accepted
UnforcedCheckByInit == init.pc = "read" /\ init'.pc \in {"probe", "done"}
UnforcedCheckByPopup ==
  /\ popup.pc \in {"sent", "waitReady"} /\ popup.type = "SET_BACKEND_URL"
  /\ popup'.pc = "health" \/ (popup'.pc = "replied" /\ popup'.reply.success)

\* performHealthCheck(true) is called at this step by REFRESH_HEALTH
ForcedCheckByPopup ==
  /\ popup.pc \in {"sent", "waitReady"} /\ popup.type = "REFRESH_HEALTH"
  /\ popup'.pc \notin {"sent", "waitReady"}

\* the last probe started less than HealthMemoMs ago
ProbedLately == State.lastHealthCheck # NoCheck /\ now - State.lastHealthCheck < HealthMemoMs

\* the health fields of STATE are left as they were
HealthKept ==
  /\ State'.isBackendReachable = State.isBackendReachable
  /\ State'.lastHealthCheck = State.lastHealthCheck

\* C26: an unforced performHealthCheck makes no probe and keeps the cached
\* result when the last probe started less than HealthMemoMs ago, and
\* probes when none has run or the last is at least that old; a forced one
\* always probes; a probe that answers sets isBackendReachable to whether
\* the response was ok and lastHealthCheck to the time the probe started.
C26_HealthCheckMemoized ==
  [][/\ UnforcedCheckByInit =>
          IF ProbedLately THEN init'.pc = "done" /\ HealthKept
                          ELSE init'.pc = "probe" /\ init'.probeAt = now
     /\ UnforcedCheckByPopup =>
          IF ProbedLately THEN popup'.pc = "replied" /\ HealthKept
                          ELSE popup'.pc = "health" /\ popup'.probeAt = now
     /\ ForcedCheckByPopup => popup'.pc = "health" /\ popup'.probeAt = now
     /\ (popup.pc = "health" /\ popup'.pc = "replied") =>
          /\ State'.isBackendReachable = (popup'.fetched = "ok")
          /\ State'.lastHealthCheck = popup.probeAt]_vars

\* reachable: within one run of the worker an unforced check was answered
\* from the cache, and after a minute another one probed and failed
C26_Witness ==
  /\ popup.type = "SET_BACKEND_URL" /\ popup.prev = "SET_BACKEND_URL"
  /\ popup.pc = "replied" /\ popup.fetched = "failed"
  /\ now >= TickMs + HealthMemoMs
  /\ ~State.isBackendReachable
  /\ State.backendBaseUrl = "https://api.example.com"

\* C27: whenever the state of the running worker differs from the state of
\* its last STATE_UPDATED broadcast (a field was changed since), a
\* broadcast carrying the current state follows while the worker runs.
C27_ChangesAreBroadcast ==
  (alive /\ State # shown) ~> (~alive \/ State = shown)

\* no chrome.storage.local call of the worker is outstanding: the read of
\* initializeState and the read of the drain have returned (a write and its
\* callback are one step here)
StorageQuiet == alive /\ init.pc \in {"probe", "done"} /\ drain.pc # "read"

\* what a worker would rehydrate from the store as it is now
Persisted == Rehydrated(DefaultState, store)

\* C28: whenever no storage call of the worker is outstanding, the values
\* persisted under mode, backendBaseUrl, totalActivitiesTracked,
\* lastSyncStatus and lastSyncAt are those of the in-memory state.
C28_StoreMatchesMemory ==
  StorageQuiet => \A k \in StateKeys : Persisted[k] = State[k]

\* the running worker acts on the popup's command at this step and replies,
\* or changes its state or the store
CommandActs ==
  /\ popup.pc \in {"sent", "waitReady", "scripts", "health"}
  /\ popup' # popup
  /\ alive /\ alive'
  /\ popup'.replies > popup.replies \/ State' # State \/ store' # store

\* C29: the worker answers a popup command, or changes state for one, only
\* once stateReady has resolved.
C29_CommandsWaitForReady ==
  [][CommandActs => stateReady]_vars

\* reachable: a SET_MODE sent to a worker that was still rehydrating has
\* been answered after stateReady resolved, and has changed the mode in
\* memory and in the store
C29_Witness ==
  /\ popup.pc = "replied" /\ popup.type = "SET_MODE" /\ popup.replies = 1
  /\ stateReady /\ init.pc = "done"
  /\ State.mode = "silent" /\ store.mode = "silent"

\* the tab starts a further send attempt for e at this step
AttemptStarts(e) == disp[e].pc = "timer" /\ disp'[e] # disp[e]

\* C30: a dispatched event gets at most 3 send attempts; attempt k+1 starts
\* no sooner than 300 * 2^(k-1) ms after attempt k failed; the queue
\* fallback begins only when the 3rd attempt has failed with lastError and
\* the append only from the fallback; and after an acknowledged or dropped
\* attempt nothing more is sent or queued for the event.
C30_BoundedBackoffThenQueue ==
  [][\A e \in Events :
       /\ disp'[e].attempt <= 3
       /\ AttemptStarts(e) =>
            /\ disp[e].attempt \in {2, 3}
            /\ now - disp[e].at >= 300 * 2 ^ (disp[e].attempt - 2)
            /\ disp'[e].attempt >= disp[e].attempt
       /\ (disp'[e].pc = "qread" /\ disp[e].pc # "qread") =>
            disp[e].attempt = 3 /\ disp[e].pc \in {"sent", "await"}
       /\ (disp'[e].pc = "queued" /\ disp[e].pc # "queued") =>
            /\ disp[e].pc = "qread"
            /\ store'.pendingActivities = Append(disp[e].snap, e)
       /\ disp[e].pc \in {"acked", "dropped", "queued"} => disp'[e] = disp[e]]_vars

\* reachable: an event is in the queue after three attempts failed with
\* lastError, the third started at least 900 ms after the first
C30_Witness ==
  \E e \in Events :
    /\ disp[e].pc = "queued" /\ disp[e].attempt = 3
    /\ InQueue(e, store.pendingActivities)
    /\ now - evAt[e] >= 900

(* --------------------------------- C31 --------------------------------- *)
\* DeliverySpec: the first start of the installed extension with tabs whose
\* clicks reach the worker; the answer to each POST is kept
DeliveryNext ==
  \/ LifecycleStart
  \/ InitRead
  \/ \E ok \in BOOLEAN : InitProbeDone(ok)
  \/ DrainRead
  \/ \E e \in Events : Deliver(e)
  \/ \E e \in Events, ok \in BOOLEAN : HandlerProbeDone(e, ok)
  \/ \E e \in Events, outcome \in PostOutcomes : PostAnswers(e, outcome)
  \/ \E e \in 1..MaxRetried, p \in Payloads : Detect(e, p, FALSE)

DeliverySpec == Init /\ [][DeliveryNext]_vars

\* the response is ok, its body parses and does not carry success: false
GoodAnswer(r) == r.net = "response" /\ r.ok /\ r.body = "json"

\* the step on which the POST of e is answered
PostAnswered(e) == hnd[e].pc = "post" /\ hnd'[e].pc = "none" /\ posted'[e] # NoResponse

\* C31: the step that ends a delivery leaves lastSyncStatus = success, in
\* memory and in the store, exactly when the POST got a response that is ok,
\* whose body parses as JSON and does not carry success: false; on every
\* other answer (non-ok status, unparsable body with any status, success:
\* false, network error) it leaves lastSyncStatus = error; lastSyncAt is set
\* either way
C31_SuccessIffGoodAnswer ==
  [][\A e \in Events :
       PostAnswered(e) =>
         /\ State'.lastSyncStatus = (IF GoodAnswer(posted'[e]) THEN "success" ELSE "error")
         /\ State'.lastSyncAt # Null
         /\ store'.lastSyncStatus = State'.lastSyncStatus
         /\ store'.lastSyncAt = State'.lastSyncAt
         /\ calls'[e].outcome = State'.lastSyncStatus]_vars

\* an ok status with an unparsable body has ended one delivery with error,
\* and a good answer has then ended another with success
C31_Witness ==
  /\ posted[1] = [net |-> "response", ok |-> TRUE, body |-> "garbage"]
  /\ calls[1].outcome = "error"
  /\ GoodAnswer(posted[2])
  /\ calls[2].outcome = "success"
  /\ State.lastSyncStatus = "success"
  /\ State.lastSyncAt # Null

(* --------------------------------- C32 --------------------------------- *)
\* ExtractSpec: the first start of the installed extension with Gmail and
\* Outlook tabs, whose send controls and shortcuts are used with and without
\* a compose root to be found
ExtractNext ==
  \/ LifecycleStart
  \/ InitRead
  \/ \E ok \in BOOLEAN : InitProbeDone(ok)
  \/ DrainRead
  \/ \E e \in Events : Deliver(e)
  \/ \E e \in Events : HandlerPostDone(e, OkResponse)
  \/ \E e \in 1..MaxRetried, pf \in Platforms, root \in Roots, p \in Payloads :
       Click(e, pf, root, p, FALSE)
  \/ \E e \in 1..MaxRetried, pf \in Platforms, root \in Roots, p \in Payloads :
       Key(e, pf, root, p, FALSE)

ExtractSpec == Init /\ [][ExtractNext]_vars

\* the step on which the handler of a trigger for e runs
Triggered(e) == evDom[e] = NoDom /\ evDom'[e] # NoDom

\* C32: a trigger (click on a send control or send shortcut, Gmail or
\* Outlook) for which no compose root is found dispatches no event, and every
\* event a trigger dispatches carries activityType and provider
C32_NoRegionNoEvent ==
  [][\A e \in Events :
       Triggered(e) =>
         /\ evDom'[e].root = "none" =>
              (disp'[e].pc = "dropped" /\ evPayload'[e] = NoPayload)
         /\ disp'[e].pc # "dropped" =>
              (evPayload'[e].activityType # Null /\ evPayload'[e].provider # Null)]_vars

\* the part of C32 that the code keeps: Gmail clicks and the shortcut on both
\* platforms dispatch nothing without a compose root, and whatever is
\* dispatched carries activityType and provider
C32_ExceptOutlookClick ==
  [][\A e \in Events :
       Triggered(e) =>
         /\ (evDom'[e].root = "none"
               /\ ~(evDom'[e].platform = "outlook" /\ evVia'[e] = "click")) =>
              (disp'[e].pc = "dropped" /\ evPayload'[e] = NoPayload)
         /\ disp'[e].pc # "dropped" =>
              (evPayload'[e].activityType # Null /\ evPayload'[e].provider # Null)]_vars

(* --------------------------------- C33 --------------------------------- *)
\* C33: one event handed once to dispatchActivity adds at most 1 to
\* totalActivitiesTracked over all the handling it gets: the first message,
\* the retries of the message and the drain of its queue entry
C33_AtMostOneIncrementPerEvent ==
  \A e \in Events : calls[e].inc <= 1

(* --------------------------------- C34 --------------------------------- *)
\* both writes of e and d to pendingActivities have completed
BothQueued(e, d) == e # d /\ disp[e].pc = "queued" /\ disp[d].pc = "queued"

\* the one worker of the run has had no queue entry to remove so far
NothingDrained == teardowns = 0 /\ drainFrom = <<>> /\ drain.pc \in {"none", "read", "done"}

\* C34: once two Dispatch Clients have each completed the write that appends
\* their event to pendingActivities, both events are in the persisted queue
\* (as long as no drain has removed anything)
C34_OverlappingAppendsBothKept ==
  \A e, d \in Events :
    (BothQueued(e, d) /\ NothingDrained) =>
      (InQueue(e, store.pendingActivities) /\ InQueue(d, store.pendingActivities))

(* --------------------------------- C35 --------------------------------- *)
\* a delivery is in flight: a handler of a live message or the drain waits
\* for its probe or its POST
DeliveryInFlight ==
  \/ \E e \in Events : hnd[e].pc \in {"probe", "post"}
  \/ drain.pc \in {"probe", "post"}

SyncingMatches == (State.lastSyncStatus = "syncing") <=> DeliveryInFlight

\* C35: lastSyncStatus is syncing exactly while at least one delivery is in
\* flight; stated of the steps of a worker that has signalled readiness: a
\* step from a state where the two agree leads to a state where they agree
C35_SyncingIffInFlight ==
  [][(alive /\ alive' /\ stateReady /\ stateReady' /\ SyncingMatches)
       => SyncingMatches']_vars

(* --------------------------------- C36 --------------------------------- *)
\* a SET_BACKEND_URL command runs and changes the backend URL
UrlChanges ==
  /\ popup.type = "SET_BACKEND_URL"
  /\ popup'.pc \in {"health", "replied"}
  /\ State'.backendBaseUrl # State.backendBaseUrl

\* C36: a SET_BACKEND_URL that changes the URL starts a probe of the new
\* URL before it replies: it does not reply with the isBackendReachable that
\* a probe of the previous URL left
C36_NewUrlIsProbed ==
  [][UrlChanges =>
       (popup'.pc = "health" /\ popup'.probeAt = now
          /\ State'.backendBaseUrl = sanitizeBaseUrl(popup.arg))]_vars

(* --------------------------------- C37 --------------------------------- *)
\* the worker is ready, no message is on its way to it and no delivery is
\* in flight
NoneOnItsWay ==
  /\ stateReady
  /\ \A e \in Events : disp[e].pc # "sent" /\ hnd[e].pc = "none"

\* DedupeSpec: a worker that stays up and reaches its backend, and clicks
\* half seconds apart, each handled to its end in the instant it is detected
DedupeNext ==
  \/ LifecycleStart
  \/ NoneOnItsWay /\ HalfSecond
  \/ InitRead
  \/ InitProbeDone(TRUE)
  \/ DrainRead
  \/ \E e \in Events : Deliver(e)
  \/ \E e \in Events : HandlerPostDone(e, OkResponse)
  \/ \E e \in Events, p \in Payloads : NoneOnItsWay /\ Detect(e, p, FALSE)

DedupeSpec == Init /\ [][DedupeNext]_vars

\* the handler has run for e
Handled(e) == calls[e].handled = 1
\* d is the last event accepted before e was handled
LastAcceptedBefore(d, e) ==
  /\ d < e
  /\ calls[d].inc = 1
  /\ \A x \in Events : (d < x /\ x < e) => calls[x].inc = 0

\* C37: the dedupe window is anchored at the last accepted event: an event
\* is absorbed exactly when the last event accepted before it has its
\* fingerprint and was accepted less than DedupeWindowMs earlier, however
\* many duplicates were absorbed in between; at exactly DedupeWindowMs it is
\* accepted
C37_WindowAnchoredAtLastAccepted ==
  \A e \in Events :
    Handled(e) =>
      (calls[e].absorbed = 1 <=>
         \E d \in Events :
           /\ LastAcceptedBefore(d, e)
           /\ Fingerprint(evPayload[d]) = Fingerprint(evPayload[e])
           /\ evAt[e] - evAt[d] < DedupeWindowMs)

\* three events of one fingerprint arrive 1500 ms and 2500 ms after the
\* first: the second has been absorbed and the third accepted
C37_Witness ==
  /\ \A e \in Events : Handled(e) /\ evPayload[e] = PayloadA
  /\ evAt[2] - evAt[1] = 3 * HalfSecondMs
  /\ evAt[3] - evAt[1] = 5 * HalfSecondMs
  /\ evAt[3] - evAt[1] > DedupeWindowMs /\ evAt[3] - evAt[2] < DedupeWindowMs
  /\ calls[1].inc = 1
  /\ calls[2].absorbed = 1 /\ calls[2].inc = 0
  /\ calls[3].absorbed = 0 /\ calls[3].inc = 1
  /\ State.totalActivitiesTracked = 2

\* an event arrives exactly DedupeWindowMs after the accepted one of its
\* fingerprint and is accepted
C37_AtTheEdge ==
  /\ Handled(1) /\ Handled(2)
  /\ evPayload[1] = evPayload[2]
  /\ evAt[2] - evAt[1] = DedupeWindowMs
  /\ calls[2].inc = 1

(* --------------------------------- C38 --------------------------------- *)
\* the step on which a SET_MODE command runs
SetModeStep ==
  /\ popup.type = "SET_MODE"
  /\ popup.pc \in {"sent", "waitReady"}
  /\ popup'.pc = "replied"

\* C38: SET_MODE leaves mode silent when the requested mode is exactly
\* "silent" and awareness for every other value, an absent one included, and
\* changes nothing else of STATE; when that is the mode already, nothing is
\* written to the store and nothing is broadcast; otherwise the new mode is
\* written to the store, alone, and UPDATE_MODE with it is sent to the mail
\* tabs
C38_SetModeValidatesAndAnnounces ==
  [][SetModeStep =>
       /\ State'.mode = (IF popup.arg = "silent" THEN "silent" ELSE "awareness")
       /\ State' = [State EXCEPT !.mode = State'.mode]
       /\ popup'.reply.success
       /\ IF State'.mode = State.mode
            THEN store' = store /\ shown' = shown /\ popup'.sentMode = Null
            ELSE /\ store' = [store EXCEPT !.mode = State'.mode]
                 /\ popup'.sentMode = State'.mode
                 /\ shown' = State']_vars

\* a second SET_MODE in a row has changed the mode back to awareness, stored
\* it and announced it to the tabs
C38_Witness ==
  /\ popup.pc = "replied"
  /\ popup.type = "SET_MODE" /\ popup.prev = "SET_MODE"
  /\ State.mode = "awareness"
  /\ store.mode = "awareness"
  /\ popup.sentMode = "awareness"

(* --------------------------------- C39 --------------------------------- *)
\* the step on which the initial health probe answers
InitProbeAnswers == alive /\ init.pc = "probe" /\ init'.pc # "probe" /\ alive'

\* the step on which processPendingActivities starts
DrainStarts == drain.pc = "none" /\ drain'.pc # "none"

\* C39: when the initial health probe answers, with an ok response or not,
\* initializeState signals readiness and starts the queue drain, which
\* begins by reading the persisted queue; and the drain starts on no step
\* that leaves readiness unsignalled
C39_ReadyThenDrainWhateverTheProbe ==
  [][/\ InitProbeAnswers =>
          /\ ~stateReady /\ stateReady'
          /\ DrainStarts /\ drain'.pc = "read"
          /\ drain'.list = store.pendingActivities
          /\ init'.pc = "done"
     /\ DrainStarts => stateReady'
     /\ (drain'.pc # "none") => stateReady']_vars

\* the initial probe has been made and has failed, readiness is signalled
\* and the drain is past its start
C39_Witness ==
  /\ alive /\ init.pc = "done"
  /\ State.lastHealthCheck # NoCheck /\ ~State.isBackendReachable
  /\ stateReady
  /\ drain.pc \in {"read", "probe", "post", "pause", "done"}
  /\ drainFrom # <<>>

(* --------------------------------- C40 --------------------------------- *)
\* the fields of STATE and of the store that clearStats leaves alone
OutsideClearStats(r) == DOMAIN r \ AcceptFields

\* C40: the step on which CLEAR_STATS runs changes, in STATE and in the
\* store, only totalActivitiesTracked, lastSyncStatus and lastSyncAt, which
\* the store then holds as STATE does: mode, backendBaseUrl,
\* isBackendReachable, lastHealthCheck, pendingActivities and the dedupe
\* fingerprint with its instant are as before
C40_ClearStatsFrame ==
  [][ClearStatsStep =>
       /\ \A k \in OutsideClearStats(State) : State'[k] = State[k]
       /\ \A k \in OutsideClearStats(store) : store'[k] = store[k]
       /\ \A k \in AcceptFields : store'[k] = State'[k]
       /\ _lastActivityFingerprint' = _lastActivityFingerprint
       /\ _lastActivityAt' = _lastActivityAt]_vars

\* CLEAR_STATS has run in silent mode with a counted activity, a dedupe
\* fingerprint in memory and a failed health probe behind it
C40_Witness ==
  /\ popup.pc = "replied" /\ popup.type = "CLEAR_STATS" /\ popup.reply.success
  /\ State.totalActivitiesTracked = 0
  /\ \E e \in Events : calls[e].inc = 1
  /\ State.mode = "silent"
  /\ store.mode = "silent"
  /\ ~State.isBackendReachable /\ State.lastHealthCheck # NoCheck
  /\ _lastActivityFingerprint # Null

====
